---- MODULE Spec2Model ----
(***************************************************************************)
(* goimporter: the import organiser of package formatter.                  *)
(*                                                                         *)
(* ProcessFile reads a Go file, extracts the imports of its first          *)
(* parenthesised import block (CollectImports), classifies them into       *)
(* seven groups (GroupImports), rebuilds the file (RewriteFile) and        *)
(* writes it back when it changed.                                         *)
(*                                                                         *)
(* Go strings are TLA+ strings; positions are 1-based and 0 stands for     *)
(* Go's -1 ("not found").  File contents are byte strings that keep        *)
(* their line terminators, so bufio.Scanner's line splitting is part of    *)
(* the model.                                                              *)
(***************************************************************************)
EXTENDS Integers, Sequences, FiniteSets, TLC

VARIABLES
    disk,          \* content of the file on disk
    repo,          \* cfg.Repo, the RepoConfig of this run
    dryRun,        \* cfg.DryRun
    pc,            \* position of ProcessFile: "start", "group", "rewrite", "done";
                   \* "flags" while ParseFlags has not returned
    code,          \* the bytes ProcessFile read from the file
    allImports,    \* result of CollectImports(code)
    groups,        \* result of GroupImports(allImports, prefixes, repo)
    lines,         \* the tokens RewriteFile's scanner yields for code
    scanPos,       \* index in lines of the next token RewriteFile scans
    foundFirstImport, inImportBlock, skipImportLines,   \* RewriteFile's flags
    buf,           \* RewriteFile's output buffer
    outcome,       \* how the last ProcessFile run ended
    writes,        \* how many times ProcessFile has written the file
    args,          \* the command line and the config file ParseFlags is given
    walk           \* ProcessGoFiles: its cfg, the directory and its progress

vars == <<disk, repo, dryRun, pc, code, allImports, groups, lines, scanPos,
          foundFirstImport, inImportBlock, skipImportLines, buf, outcome, writes,
          args, walk>>

-----------------------------------------------------------------------------
(* Characters and strings.                                                 *)

\* The characters of the model's texts, in ascending byte order.
Alphabet ==
    "\t\n\r \"%()./:ABCDEFGHIJKLMNOPQRSTUVWXYZ\\abcdefghijklmnopqrstuvwxyz{}"

Char(s, i) == SubSeq(s, i, i)

\* The rank of a character among the model's characters, which is monotone
\* in its byte value.
Ord(c) == CHOOSE i \in 1..Len(Alphabet) : Char(Alphabet, i) = c

\* Go's s < t on strings: byte-wise lexicographic.
RECURSIVE StrLess(_, _)
StrLess(s, t) ==
    IF t = "" THEN FALSE
    ELSE IF s = "" THEN TRUE
    ELSE IF Char(s, 1) = Char(t, 1)
         THEN StrLess(SubSeq(s, 2, Len(s)), SubSeq(t, 2, Len(t)))
         ELSE Ord(Char(s, 1)) < Ord(Char(t, 1))

\* strings.HasPrefix / strings.HasSuffix.
HasPrefix(s, p) == Len(p) <= Len(s) /\ SubSeq(s, 1, Len(p)) = p
HasSuffix(s, p) == Len(p) <= Len(s) /\ SubSeq(s, Len(s) - Len(p) + 1, Len(s)) = p

\* The positions at which sub occurs in s.
Occurrences(s, sub) ==
    {i \in 1..(Len(s) - Len(sub) + 1) : SubSeq(s, i, i + Len(sub) - 1) = sub}

SetMin(S) == CHOOSE x \in S : \A y \in S : x <= y
SetMax(S) == CHOOSE x \in S : \A y \in S : y <= x

\* The first position from i on at which sub occurs in s; 0 when there is
\* none.
RECURSIVE IndexFrom(_, _, _)
IndexFrom(s, sub, i) ==
    IF i + Len(sub) - 1 > Len(s) THEN 0
    ELSE IF SubSeq(s, i, i + Len(sub) - 1) = sub THEN i
    ELSE IndexFrom(s, sub, i + 1)

\* strings.Index / strings.LastIndex / strings.Contains.
Index(s, sub)     == IndexFrom(s, sub, 1)
LastIndex(s, sub) == IF Occurrences(s, sub) = {} THEN 0 ELSE SetMax(Occurrences(s, sub))
Contains(s, sub)  == Index(s, sub) # 0

\* unicode.IsSpace on the model's characters.
IsSpace(c) == c \in {" ", "\t", "\n", "\r"}

\* strings.TrimSpace.
TrimSpace(s) ==
    LET keep == {i \in 1..Len(s) : ~IsSpace(Char(s, i))}
    IN  IF keep = {} THEN "" ELSE SubSeq(s, SetMin(keep), SetMax(keep))

\* strings.TrimSuffix.
TrimSuffix(s, suffix) ==
    IF HasSuffix(s, suffix) THEN SubSeq(s, 1, Len(s) - Len(suffix)) ELSE s

\* strings.Split(s, sep) for a one-character separator.
RECURSIVE Split(_, _)
Split(s, sep) ==
    LET i == Index(s, sep)
    IN  IF i = 0 THEN <<s>>
        ELSE <<SubSeq(s, 1, i - 1)>> \o Split(SubSeq(s, i + 1, Len(s)), sep)

\* strings.Join.
RECURSIVE Join(_, _)
Join(parts, sep) ==
    IF Len(parts) = 0 THEN ""
    ELSE IF Len(parts) = 1 THEN parts[1]
    ELSE parts[1] \o sep \o Join(Tail(parts), sep)

\* strings.ToLower on the model's characters.
UpperCase == "ABCDEFGHIJKLMNOPQRSTUVWXYZ"
LowerCase == "abcdefghijklmnopqrstuvwxyz"

UpperChars == {Char(UpperCase, i) : i \in 1..Len(UpperCase)}

LowerChar(c) ==
    IF c \in UpperChars THEN Char(LowerCase, Index(UpperCase, c)) ELSE c

RECURSIVE ToLower(_)
ToLower(s) ==
    IF s = "" THEN "" ELSE LowerChar(Char(s, 1)) \o ToLower(SubSeq(s, 2, Len(s)))

\* strconv.Quote, which fmt's %q applies to a string: the text in double
\* quotes, with a backslash escape for the quote, the backslash and the
\* control characters.
QuoteChar(c) ==
    CASE c = "\"" -> "\\\""
      [] c = "\\" -> "\\\\"
      [] c = "\t" -> "\\t"
      [] c = "\n" -> "\\n"
      [] c = "\r" -> "\\r"
      [] OTHER    -> c

RECURSIVE QuoteBody(_)
QuoteBody(s) ==
    IF s = "" THEN "" ELSE QuoteChar(Char(s, 1)) \o QuoteBody(SubSeq(s, 2, Len(s)))

Quote(s) == "\"" \o QuoteBody(s) \o "\""

\* bufio.ScanLines strips one trailing carriage return from a token.
DropCR(s) == IF HasSuffix(s, "\r") THEN SubSeq(s, 1, Len(s) - 1) ELSE s

\* The longest line bufio.Scanner's buffer takes.  In Go it is
\* bufio.MaxScanTokenSize = 64 * 1024 bytes; the model's texts are short,
\* and the limit is scaled down to a length that their ordinary lines stay
\* below and one long line exceeds.
MaxScanTokenSize == 80

\* The bytes of the first line of a text, without its newline, which stands
\* at position i (0: the text has no newline).
FirstRawLine(data, i) == IF i = 0 THEN data ELSE SubSeq(data, 1, i - 1)

\* The scanner gives up on a line that fills its buffer before the newline
\* is seen.
TooLong(raw) == Len(raw) >= MaxScanTokenSize

\* The tokens bufio.Scanner yields with the default split function
\* (bufio.ScanLines): the text up to each newline, without the newline and
\* without a carriage return before it; a last line without a newline is a
\* token when it is not empty.  Scan returns false at a line that is too
\* long, so the tokens end before it.
RECURSIVE ScanLines(_)
ScanLines(data) ==
    LET i == Index(data, "\n")
    IN  IF data = "" THEN <<>>
        ELSE IF TooLong(FirstRawLine(data, i)) THEN <<>>
        ELSE IF i = 0 THEN <<DropCR(data)>>
        ELSE <<DropCR(SubSeq(data, 1, i - 1))>> \o ScanLines(SubSeq(data, i + 1, Len(data)))

\* scanner.Err() after the loop: not nil (bufio.ErrTooLong) when the scan
\* stopped at a line that is too long.
RECURSIVE ScanErr(_)
ScanErr(data) ==
    LET i == Index(data, "\n")
    IN  IF data = "" THEN FALSE
        ELSE IF TooLong(FirstRawLine(data, i)) THEN TRUE
        ELSE IF i = 0 THEN FALSE
        ELSE ScanErr(SubSeq(data, i + 1, Len(data)))

-----------------------------------------------------------------------------
(* collector.go                                                            *)

Import(alias, path) == [Alias |-> alias, Path |-> path]

\* (mutant) The path ends at the second double quote of the line.
parseImportLine_SecondQuote(line) ==
    LET startQuote == Index(line, "\"")
        endQuote   == IndexFrom(line, "\"", startQuote + 1)
    IN  IF startQuote # 0 /\ endQuote # 0 /\ endQuote > startQuote
        THEN Import(TrimSpace(SubSeq(line, 1, startQuote - 1)),
                    SubSeq(line, startQuote + 1, endQuote - 1))
        ELSE Import("", "")

\* parseImportLine: the path between the first and the last double quote of
\* the line and the trimmed text before the first quote as alias; two empty
\* strings when the line has no two quotes.
parseImportLine(line) ==
    LET startQuote == Index(line, "\"")
        endQuote   == LastIndex(line, "\"")
    IN  IF startQuote # 0 /\ endQuote # 0 /\ endQuote > startQuote
        THEN Import(TrimSpace(SubSeq(line, 1, startQuote - 1)),
                    SubSeq(line, startQuote + 1, endQuote - 1))
        ELSE Import("", "")

\* (mutant) The scanner loop enters every import block, not only the first.
CollectLine_AnyBlock(st, line) ==
    LET trimmedLine == TrimSpace(line)
        imp         == parseImportLine(trimmedLine)
    IN  IF trimmedLine = "import ("
        THEN [st EXCEPT !.foundFirstBlock = TRUE, !.inImportBlock = TRUE]
        ELSE IF st.inImportBlock /\ trimmedLine = ")"
        THEN [st EXCEPT !.inImportBlock = FALSE]
        ELSE IF st.inImportBlock /\ trimmedLine # "" /\ ~HasPrefix(trimmedLine, "//")
                /\ imp.Path # ""
        THEN [st EXCEPT !.allImports = Append(@, imp)]
        ELSE st

\* One iteration of CollectImports' scanner loop on a token.
CollectLine(st, line) ==
    LET trimmedLine == TrimSpace(line)
        imp         == parseImportLine(trimmedLine)
    IN  IF trimmedLine = "import (" /\ ~st.foundFirstBlock
        THEN [st EXCEPT !.foundFirstBlock = TRUE, !.inImportBlock = TRUE]
        ELSE IF st.inImportBlock /\ trimmedLine = ")"
        THEN [st EXCEPT !.inImportBlock = FALSE]
        ELSE IF st.inImportBlock /\ trimmedLine # "" /\ ~HasPrefix(trimmedLine, "//")
                /\ imp.Path # ""
        THEN [st EXCEPT !.allImports = Append(@, imp)]
        ELSE st

RECURSIVE CollectLoop(_, _)
CollectLoop(st, toks) ==
    IF toks = <<>> THEN st ELSE CollectLoop(CollectLine(st, Head(toks)), Tail(toks))

\* CollectImports: the imports of the first import block, in source order.
CollectImports(data) ==
    CollectLoop([foundFirstBlock |-> FALSE, inImportBlock |-> FALSE, allImports |-> <<>>],
                ScanLines(data)).allImports

\* CollectImports returns an error.
CollectErr(data) == ScanErr(data)

-----------------------------------------------------------------------------
(* detector.go                                                             *)

\* The number of lines IsGeneratedFile looks at.
GeneratedScanLines == 10

GeneratedMarkers ==
    {"do not edit", "auto-generated", "autogenerated", "code generated",
     "by mockgen", "by protoc", "automatically generated"}

\* The marker test IsGeneratedFile applies to a line before the package clause.
HasGeneratedMarker(line) ==
    LET lowercaseLine == ToLower(line)
    IN  \/ /\ Contains(lowercaseLine, "generated")
           /\ (Contains(line, "//") \/ Contains(line, "/*"))
        \/ \E marker \in GeneratedMarkers : Contains(lowercaseLine, marker)

\* (mutant) The marker test does not stop at the package clause.
RECURSIVE GeneratedLoop_IgnoresPackage(_, _)
GeneratedLoop_IgnoresPackage(toks, foundPackage) ==
    IF toks = <<>> THEN FALSE
    ELSE LET line == Head(toks)
         IN  IF TrimSpace(line) = "" THEN GeneratedLoop_IgnoresPackage(Tail(toks), foundPackage)
             ELSE IF HasGeneratedMarker(line) THEN TRUE
             ELSE GeneratedLoop_IgnoresPackage(Tail(toks), foundPackage)

RECURSIVE GeneratedLoop(_, _)
GeneratedLoop(toks, foundPackage) ==
    IF toks = <<>> THEN FALSE
    ELSE LET line == Head(toks)
         IN  IF TrimSpace(line) = "" THEN GeneratedLoop(Tail(toks), foundPackage)
             ELSE IF HasPrefix(TrimSpace(line), "package ") THEN GeneratedLoop(Tail(toks), TRUE)
             ELSE IF foundPackage THEN GeneratedLoop(Tail(toks), foundPackage)
             ELSE IF HasGeneratedMarker(line) THEN TRUE
             ELSE GeneratedLoop(Tail(toks), foundPackage)

\* IsGeneratedFile: a generated marker on one of the first lines, before the
\* package clause.
IsGeneratedFile(data) ==
    LET toks == ScanLines(data)
    IN  GeneratedLoop(SubSeq(toks, 1, IF Len(toks) < GeneratedScanLines
                                      THEN Len(toks) ELSE GeneratedScanLines), FALSE)

\* extractDomainFromTemplate: the component after the first "projects"
\* component that is not the template's first component.
extractDomainFromTemplate(template) ==
    LET parts == Split(template, "/")
        K     == {k \in 2..(Len(parts) - 1) : parts[k] = "projects"}
    IN  IF K = {} THEN "" ELSE parts[SetMin(K) + 1]

\* strings.Replace(s, old, new, 1): the first occurrence replaced.
ReplaceFirst(s, old, new) ==
    LET i == Index(s, old)
    IN  IF i = 0 THEN s
        ELSE SubSeq(s, 1, i - 1) \o new \o SubSeq(s, i + Len(old), Len(s))

\* The longest prefix of s without a slash: what ([^\/]+) captures.
RECURSIVE UpToSlash(_)
UpToSlash(s) ==
    IF s = "" \/ Char(s, 1) = "/" THEN ""
    ELSE Char(s, 1) \o UpToSlash(SubSeq(s, 2, Len(s)))

\* ExtractProjectName: the component of the file path after
\* <RepoPrefix>/projects/<domain>/, by the leftmost match of the regular
\* expression; empty when there is no match or the component is "pkg".
\* The domain part is taken literally (it holds no regexp metacharacter in
\* the model's templates).
ExtractProjectName(filePath, r) ==
    LET domainPart == extractDomainFromTemplate(r.ProjectsTemplate)
        lit        == r.RepoPrefix \o "/projects/" \o domainPart \o "/"
        M          == {i \in Occurrences(filePath, lit) :
                          UpToSlash(SubSeq(filePath, i + Len(lit), Len(filePath))) # ""}
        name       == UpToSlash(SubSeq(filePath, SetMin(M) + Len(lit), Len(filePath)))
    IN  IF domainPart = "" \/ M = {} THEN ""
        ELSE IF name = "pkg" THEN "" ELSE name

\* GetImportPrefixes: the prefix list ProcessFile builds for a file.
\* fmt.Sprintf(template, name) fills the template's one %s.
GetImportPrefixes(filePath, r) ==
    LET projectName == ExtractProjectName(filePath, r)
        base        == <<r.RepoPrefix, r.CommonPrefix, r.DomainPrefix>>
    IN  IF projectName # ""
        THEN base \o <<ReplaceFirst(r.ProjectsTemplate, "%s", projectName) \o "/pkg",
                       ReplaceFirst(r.ProjectsTemplate, "%s", projectName) \o "/internal">>
        ELSE base

-----------------------------------------------------------------------------
(* grouper.go                                                              *)

\* The seven groups of entities.ImportGroups, in the order RewriteFile
\* writes them.
GroupNames ==
    <<"Stdlib", "External", "OrgCommon", "DomainCommon", "RepoOther",
      "ProjectPkg", "ProjectInternal">>

EmptyGroups == [g \in {GroupNames[i] : i \in 1..Len(GroupNames)} |-> <<>>]

\* stringHasPrefixAny.
stringHasPrefixAny(s, prefixes) ==
    \E i \in 1..Len(prefixes) : HasPrefix(s, prefixes[i])

\* The inner loop of the project detection on one import path: the path
\* through the component after the first component equal to the domain
\* part whose successor is not "pkg"; empty when there is none.
ProjectPrefixOf(path, domainPart) ==
    LET parts == Split(path, "/")
        K     == {k \in 1..(Len(parts) - 1) :
                     parts[k] = domainPart /\ parts[k + 1] # "pkg"}
    IN  IF K = {} THEN "" ELSE Join(SubSeq(parts, 1, SetMin(K) + 1), "/")

\* The condition under which the detection loop looks into an import.
IsProjectCandidate(path, domainPart) ==
    /\ domainPart # ""
    /\ Contains(path, "/projects/" \o domainPart \o "/")
    /\ (Contains(path, "/internal/") \/ Contains(path, "/pkg/"))

\* The project detection: the prefix given by the first import, in input
\* order, that is a candidate and yields a prefix.
RECURSIVE DetectProjectPrefix(_, _)
DetectProjectPrefix(imports, domainPart) ==
    IF imports = <<>> THEN ""
    ELSE IF /\ IsProjectCandidate(Head(imports).Path, domainPart)
            /\ ProjectPrefixOf(Head(imports).Path, domainPart) # ""
         THEN ProjectPrefixOf(Head(imports).Path, domainPart)
         ELSE DetectProjectPrefix(Tail(imports), domainPart)

isProjectPkg(path, projectPrefix) ==
    /\ projectPrefix # ""
    /\ HasPrefix(path, projectPrefix)
    /\ Contains(path, "/pkg/")

isProjectInternal(path, projectPrefix) ==
    /\ projectPrefix # ""
    /\ HasPrefix(path, projectPrefix)
    /\ Contains(path, "/internal/")

\* (mutant) The switch tests the internal packages of the project before
\* its pkg packages.
Classify_InternalFirst(path, r, projectPrefix) ==
    IF ~Contains(path, ".") THEN "Stdlib"
    ELSE IF ~HasPrefix(path, r.OrgPrefix) THEN "External"
    ELSE IF \/ HasPrefix(path, r.CommonPrefix)
            \/ stringHasPrefixAny(path, r.AdditionalCommonPrefixes)
            \/ (HasPrefix(path, r.OrgPrefix) /\ ~HasPrefix(path, r.RepoPrefix))
         THEN "OrgCommon"
    ELSE IF HasPrefix(path, r.DomainPrefix) THEN "DomainCommon"
    ELSE IF isProjectInternal(path, projectPrefix) THEN "ProjectInternal"
    ELSE IF isProjectPkg(path, projectPrefix) THEN "ProjectPkg"
    ELSE "RepoOther"

\* The switch of GroupImports: the group an import path goes to.
Classify(path, r, projectPrefix) ==
    IF ~Contains(path, ".") THEN "Stdlib"
    ELSE IF ~HasPrefix(path, r.OrgPrefix) THEN "External"
    ELSE IF \/ HasPrefix(path, r.CommonPrefix)
            \/ stringHasPrefixAny(path, r.AdditionalCommonPrefixes)
            \/ (HasPrefix(path, r.OrgPrefix) /\ ~HasPrefix(path, r.RepoPrefix))
         THEN "OrgCommon"
    ELSE IF HasPrefix(path, r.DomainPrefix) THEN "DomainCommon"
    ELSE IF isProjectPkg(path, projectPrefix) THEN "ProjectPkg"
    ELSE IF isProjectInternal(path, projectPrefix) THEN "ProjectInternal"
    ELSE "RepoOther"

\* (mutant) The duplicate test never finds a path.
IsProcessed_Never(processed, path) == FALSE

\* The duplicate test of the classification loop.
IsProcessed(processed, path) == path \in processed

\* (mutant) The classification loop keeps the last import of a path instead
\* of the first.
RECURSIVE ClassifyLoop_LastWins(_, _, _, _, _)
ClassifyLoop_LastWins(imports, processed, g, r, projectPrefix) ==
    IF imports = <<>> THEN g
    ELSE LET imp == Head(imports)
             grp == Classify(imp.Path, r, projectPrefix)
         IN  IF \E i \in 2..Len(imports) : imports[i].Path = imp.Path
             THEN ClassifyLoop_LastWins(Tail(imports), processed, g, r, projectPrefix)
             ELSE ClassifyLoop_LastWins(Tail(imports), processed \cup {imp.Path},
                                        [g EXCEPT ![grp] = Append(@, imp)], r, projectPrefix)

\* The classification loop: every import whose path was not seen before is
\* appended to its group.
RECURSIVE ClassifyLoop(_, _, _, _, _)
ClassifyLoop(imports, processed, g, r, projectPrefix) ==
    IF imports = <<>> THEN g
    ELSE LET imp == Head(imports)
             grp == Classify(imp.Path, r, projectPrefix)
         IN  IF IsProcessed(processed, imp.Path)
             THEN ClassifyLoop(Tail(imports), processed, g, r, projectPrefix)
             ELSE ClassifyLoop(Tail(imports), processed \cup {imp.Path},
                               [g EXCEPT ![grp] = Append(@, imp)], r, projectPrefix)

\* Insertion of an import into a sequence sorted by path.
RECURSIVE InsertByPath(_, _)
InsertByPath(sorted, imp) ==
    IF sorted = <<>> THEN <<imp>>
    ELSE IF StrLess(imp.Path, Head(sorted).Path) THEN <<imp>> \o sorted
    ELSE <<Head(sorted)>> \o InsertByPath(Tail(sorted), imp)

\* (mutant) The groups are left in input order.
sortImports_Unsorted(imports) == imports

\* sortImports: ascending by path.  sort.Slice is not stable; the paths of a
\* group are distinct after the duplicate test, so the result is unique.
RECURSIVE sortImports(_)
sortImports(imports) ==
    IF imports = <<>> THEN <<>>
    ELSE InsertByPath(sortImports(Tail(imports)), Head(imports))

\* (mutant) The project is that of the prefixes argument when the list
\* holds the two prefixes of a project.
GroupImports_PrefixesDecide(imports, prefixes, r) ==
    LET domainPart    == extractDomainFromTemplate(r.ProjectsTemplate)
        projectPrefix == IF Len(prefixes) > 3 THEN TrimSuffix(prefixes[4], "/pkg")
                         ELSE DetectProjectPrefix(imports, domainPart)
        g             == ClassifyLoop(imports, {}, EmptyGroups, r, projectPrefix)
    IN  [n \in DOMAIN g |-> sortImports(g[n])]

\* GroupImports.  The prefixes argument is the blank parameter of the Go
\* function: it is not read.
GroupImports(imports, prefixes, r) ==
    LET domainPart    == extractDomainFromTemplate(r.ProjectsTemplate)
        projectPrefix == DetectProjectPrefix(imports, domainPart)
        g             == ClassifyLoop(imports, {}, EmptyGroups, r, projectPrefix)
    IN  [n \in DOMAIN g |-> sortImports(g[n])]

-----------------------------------------------------------------------------
(* rewriter.go                                                             *)

\* One entry line of the rewritten block.
EntryLine(indent, imp) ==
    IF imp.Alias # ""
    THEN indent \o "\t" \o imp.Alias \o " " \o Quote(imp.Path) \o "\n"
    ELSE indent \o "\t" \o Quote(imp.Path) \o "\n"

RECURSIVE EntryLines(_, _)
EntryLines(indent, imports) ==
    IF imports = <<>> THEN ""
    ELSE EntryLine(indent, Head(imports)) \o EntryLines(indent, Tail(imports))

\* (mutant) No blank line is written before a group.
writeImportGroup_NoSeparator(imports, needNewline, indent) ==
    IF Len(imports) = 0 THEN "" ELSE EntryLines(indent, imports)

\* (mutant) Every group is written with a blank line before it.
RECURSIVE WriteGroups_AlwaysSeparator(_, _, _, _)
WriteGroups_AlwaysSeparator(g, i, hasContent, indent) ==
    IF i > Len(GroupNames) THEN ""
    ELSE (IF Len(g[GroupNames[i]]) = 0 THEN "" ELSE "\n" \o EntryLines(indent, g[GroupNames[i]]))
         \o WriteGroups_AlwaysSeparator(g, i + 1, hasContent, indent)

\* writeImportGroup: what one call appends to the buffer.
writeImportGroup(imports, needNewline, indent) ==
    IF Len(imports) = 0 THEN ""
    ELSE (IF needNewline THEN "\n" ELSE "") \o EntryLines(indent, imports)

\* The seven writeImportGroup calls, with hasContent as the code updates it.
RECURSIVE WriteGroups(_, _, _, _)
WriteGroups(g, i, hasContent, indent) ==
    IF i > Len(GroupNames) THEN ""
    ELSE writeImportGroup(g[GroupNames[i]], hasContent, indent)
         \o WriteGroups(g, i + 1, hasContent \/ Len(g[GroupNames[i]]) > 0, indent)

\* What RewriteFile writes on the first "import (" line: the line, then the
\* grouped imports.
ImportBlockText(line, g) ==
    (line \o "\n") \o WriteGroups(g, 1, FALSE, TrimSuffix(line, "import ("))

\* (mutant) A second or later "import (" line is copied to the output.
RewriteLine_KeepsOpeners(st, line, g) ==
    LET trimmedLine == TrimSpace(line)
    IN  IF trimmedLine = "import ("
        THEN IF ~st.foundFirstImport
             THEN [st EXCEPT !.foundFirstImport = TRUE, !.inImportBlock = TRUE,
                             !.buf = @ \o ImportBlockText(line, g)]
             ELSE [st EXCEPT !.skipImportLines = TRUE, !.buf = @ \o line \o "\n"]
        ELSE IF st.inImportBlock /\ trimmedLine = ")"
        THEN [st EXCEPT !.inImportBlock = FALSE, !.buf = @ \o line \o "\n"]
        ELSE IF st.skipImportLines
        THEN IF trimmedLine = ")" THEN [st EXCEPT !.skipImportLines = FALSE] ELSE st
        ELSE IF st.inImportBlock
        THEN st
        ELSE [st EXCEPT !.buf = @ \o line \o "\n"]

\* One iteration of RewriteFile's scanner loop on a token.
RewriteLine(st, line, g) ==
    LET trimmedLine == TrimSpace(line)
    IN  IF trimmedLine = "import ("
        THEN IF ~st.foundFirstImport
             THEN [st EXCEPT !.foundFirstImport = TRUE, !.inImportBlock = TRUE,
                             !.buf = @ \o ImportBlockText(line, g)]
             ELSE [st EXCEPT !.skipImportLines = TRUE]
        ELSE IF st.inImportBlock /\ trimmedLine = ")"
        THEN [st EXCEPT !.inImportBlock = FALSE, !.buf = @ \o line \o "\n"]
        ELSE IF st.skipImportLines
        THEN IF trimmedLine = ")" THEN [st EXCEPT !.skipImportLines = FALSE] ELSE st
        ELSE IF st.inImportBlock
        THEN st
        ELSE [st EXCEPT !.buf = @ \o line \o "\n"]

RewriteStart ==
    [foundFirstImport |-> FALSE, inImportBlock |-> FALSE,
     skipImportLines |-> FALSE, buf |-> ""]

RECURSIVE RewriteLoop(_, _, _)
RewriteLoop(st, toks, g) ==
    IF toks = <<>> THEN st ELSE RewriteLoop(RewriteLine(st, Head(toks), g), Tail(toks), g)

\* RewriteFile: the new content of the file.
RewriteFile(data, g) == RewriteLoop(RewriteStart, ScanLines(data), g).buf

\* RewriteFile returns an error.
RewriteErr(data) == ScanErr(data)

-----------------------------------------------------------------------------
(* The inputs.                                                             *)

\* The largest number of entry lines in the body the model puts into a file.
MaxImports == 2

\* ProcessFile is run on a file again until it has written it this often.
MaxWrites == 2

\* config.DefaultRepoConfig.
DefaultRepoConfig ==
    [OrgPrefix        |-> "github.com/myorg",
     RepoPrefix       |-> "github.com/myorg/myrepo",
     CommonPrefix     |-> "github.com/myorg/myrepo/pkg",
     DomainPrefix     |-> "github.com/myorg/myrepo/projects/domain/pkg",
     ProjectsTemplate |-> "github.com/myorg/myrepo/projects/domain/%s",
     AdditionalCommonPrefixes |-> <<>>]

\* The repository configurations of the model: the default one, and the
\* default one with an additional common prefix inside the repository.
RepoConfigs ==
    {DefaultRepoConfig,
     [DefaultRepoConfig EXCEPT
         !.AdditionalCommonPrefixes =
             <<"github.com/myorg/myrepo/projects/domain/a/internal">>]}

-----------------------------------------------------------------------------
(* package config: ParseFlags and loadConfigFile.                          *)

\* The value flag.Parse leaves in a string flag bound to a variable: the
\* value of the flag's last occurrence on the command line, the default when
\* the flag does not occur.  flags is the command line's list of
\* <<name, value>> pairs.
RECURSIVE FlagValue(_, _, _)
FlagValue(flags, name, default) ==
    IF flags = <<>> THEN default
    ELSE IF flags[Len(flags)][1] = name THEN flags[Len(flags)][2]
    ELSE FlagValue(SubSeq(flags, 1, Len(flags) - 1), name, default)

\* The config files of the model, as json.Unmarshal decodes them into a
\* zero RepoConfig: "repo.json" sets every field, "org.json" sets org_prefix
\* only, and any other path cannot be read.
ConfigFileLoads(path) == path \in {"repo.json", "org.json"}

ConfigFileRepo(path) ==
    IF path = "repo.json"
    THEN [DefaultRepoConfig EXCEPT
             !.AdditionalCommonPrefixes =
                 <<"github.com/myorg/myrepo/projects/domain/a/internal">>]
    ELSE [OrgPrefix        |-> "github.com/acme",
          RepoPrefix       |-> "",
          CommonPrefix     |-> "",
          DomainPrefix     |-> "",
          ProjectsTemplate |-> "",
          AdditionalCommonPrefixes |-> <<>>]

\* loadConfigFile: the Config after the call.  On success c.Repo is the
\* decoded RepoConfig; on an error the Config is left as it was.
loadConfigFile(c) ==
    IF ConfigFileLoads(c.ConfigPath)
    THEN [c EXCEPT !.Repo = ConfigFileRepo(c.ConfigPath)]
    ELSE c

\* ParseFlags: the Config it returns for a command line.  The repository
\* flags are bound to the fields of the default RepoConfig; the config file
\* is loaded after flag.Parse, and -pkgs is applied last.
ParseFlags(a) ==
    LET d      == DefaultRepoConfig
        parsed == [Dir         |-> a.dir,
                   Recursive   |-> a.r,
                   DryRun      |-> a.d,
                   ExcludeMock |-> a.excludeMock,
                   PkgPrefixes |-> <<>>,
                   ConfigPath  |-> a.config,
                   Repo |-> [OrgPrefix        |-> FlagValue(a.flags, "org", d.OrgPrefix),
                             RepoPrefix       |-> FlagValue(a.flags, "repo", d.RepoPrefix),
                             CommonPrefix     |-> FlagValue(a.flags, "common-prefix", d.CommonPrefix),
                             DomainPrefix     |-> FlagValue(a.flags, "domain-prefix", d.DomainPrefix),
                             ProjectsTemplate |-> FlagValue(a.flags, "projects-tpl", d.ProjectsTemplate),
                             AdditionalCommonPrefixes |-> d.AdditionalCommonPrefixes]]
        loaded == IF parsed.ConfigPath # "" THEN loadConfigFile(parsed) ELSE parsed
    IN  IF a.pkgs # "" THEN [loaded EXCEPT !.PkgPrefixes = Split(a.pkgs, ",")] ELSE loaded

\* The command line without arguments: the defaults of the flags.
NoArgs ==
    [dir |-> ".", r |-> FALSE, d |-> FALSE, excludeMock |-> TRUE,
     config |-> "", pkgs |-> "", flags |-> <<>>]

\* The command lines of the ProcessFile runs: -d or not, -config repo.json
\* or not.
MainArgs ==
    {[NoArgs EXCEPT !.d = d, !.config = c] : d \in BOOLEAN, c \in {"", "repo.json"}}

\* ProcessGoFiles is not running.
NoWalk ==
    [dir |-> ".", recursive |-> FALSE, excludeMock |-> TRUE, readable |-> TRUE,
     tree |-> <<>>, pos |-> 1, called |-> <<>>, failed |-> <<>>, result |-> "none"]

\* The entry lines the model writes into import blocks (without their
\* indentation): plain and aliased imports, two lines with the same path,
\* and a line with a trailing comment that holds quotes.
EntryTexts ==
    {"\"fmt\"",
     "f \"fmt\"",
     "e \"github.com/x/y\"",
     "\"github.com/myorg/lib\"",
     "\"github.com/myorg/myrepo/pkg/log\"",
     "\"github.com/myorg/myrepo/projects/domain/pkg/u\"",
     "\"github.com/myorg/myrepo/projects/domain/a/pkg/x\"",
     "\"github.com/myorg/myrepo/projects/domain/a/internal/z\"",
     "\"github.com/myorg/myrepo/projects/domain/b/internal/pkg/y\"",
     "\"os\" // \"x\""}

\* The bodies of at most n entry lines.
BodiesUpTo(n) == UNION {[1..k -> EntryTexts] : k \in 0..n}

\* The shapes of the model's files: the text before the body, the
\* indentation and the terminator of the body's lines, and the text after
\* the body.

\* The plain shape: a block between other lines.
MainLayouts ==
    {[pre |-> "package p\nimport (\n", ind |-> "\t", eol |-> "\n",
      post |-> ")\nvar x\n"]}

\* A text longer than MaxScanTokenSize.
LongText ==
    "\"aaaaaaaaaaaaaaaaaaaaaaaaaaaaaaaaaaaaaaaaaaaaa"
    \o "aaaaaaaaaaaaaaaaaaaaaaaaaaaaaaaaaaaaaaaaaaaaa\""

\* The special shapes.
SideLayouts ==
    {\* an indented block with a comment, a blank line and a line without a
     \* quoted path
     [pre |-> " import (\n\t// c\n", ind |-> " \t", eol |-> "\n",
      post |-> "\n\tos\"\n )\n"],
     \* CRLF line endings
     [pre |-> "import (\r\n", ind |-> "\t", eol |-> "\r\n", post |-> ")\r\n"],
     \* no newline at the end of the file
     [pre |-> "import (\n", ind |-> "\t", eol |-> "\n", post |-> ")"],
     \* a second import block
     [pre |-> "import (\n", ind |-> "\t", eol |-> "\n",
      post |-> ")\nimport (\n\t\"io\"\n)\nvar x\n"],
     \* an "import (" line inside the first block
     [pre |-> "import (\n", ind |-> "\t", eol |-> "\n",
      post |-> "import (\n\t)\nvar x\n)\nvar y\n"],
     \* a block that is not closed
     [pre |-> "import (\n", ind |-> "\t", eol |-> "\n", post |-> ""],
     \* a line after the block that is longer than the scanner's buffer
     [pre |-> "import (\n", ind |-> "\t", eol |-> "\n",
      post |-> ")\nvar s = " \o LongText \o "\n"],
     \* no import block
     [pre |-> "package p\n", ind |-> "\t", eol |-> "\n", post |-> "var x\n"],
     \* a generated file
     [pre |-> "// Code generated. DO NOT EDIT.\npackage p\nimport (\n",
      ind |-> "\t", eol |-> "\n", post |-> ")\n"]}

RECURSIVE BodyText(_, _)
BodyText(body, lay) ==
    IF body = <<>> THEN ""
    ELSE lay.ind \o Head(body) \o lay.eol \o BodyText(Tail(body), lay)

FileText(lay, body) == lay.pre \o BodyText(body, lay) \o lay.post

\* The files of the model: the plain shape with every body of at most
\* MaxImports entry lines, the special shapes with the bodies one line
\* shorter.
Files ==
    {FileText(lay, body) : lay \in MainLayouts, body \in BodiesUpTo(MaxImports)}
    \cup {FileText(lay, body) : lay \in SideLayouts, body \in BodiesUpTo(MaxImports - 1)}

\* Lines that may stand at the head of a file: with and without a marker of
\* generated code, in a comment or not, in lower and in upper case.
HeaderLines ==
    {"// Code generated by protoc-gen-go. DO NOT EDIT.",
     "// generated",
     "/* Generated */",
     "generated",
     "DO NOT EDIT",
     "by mockgen",
     "auto-generated",
     "Automatically Generated",
     "// Package p is written by hand."}

\* The lines before the header line: a number of blank lines or of comment
\* lines that puts the header line first, last among the lines
\* IsGeneratedFile looks at, or just behind them.
HeaderOffsets == {0, GeneratedScanLines - 1, GeneratedScanLines}

RECURSIVE Repeat(_, _)
Repeat(text, n) == IF n = 0 THEN "" ELSE text \o Repeat(text, n - 1)

\* Files without an import block, with a header line before or after the
\* package clause.
HeaderFiles ==
    {Repeat(fill, k) \o h \o "\npackage p\n" :
        fill \in {"\n", "// c\n"}, k \in HeaderOffsets, h \in HeaderLines}
    \cup {pkg \o h \o "\n" : pkg \in {"package p\n", " package p\n\n"}, h \in HeaderLines}

\* The paths of the files ProcessFile is called on.
FileNames ==
    {"main.go", "github.com/myorg/myrepo/projects/domain/a/internal/z/z.go"}

-----------------------------------------------------------------------------
(* processor.go: ProcessFile as a state machine.                           *)

Idle ==
    /\ code = ""
    /\ allImports = <<>>
    /\ groups = EmptyGroups
    /\ lines = <<>>
    /\ scanPos = 1
    /\ foundFirstImport = FALSE
    /\ inImportBlock = FALSE
    /\ skipImportLines = FALSE
    /\ buf = ""

Init ==
    /\ disk \in Files \cup HeaderFiles
    /\ args \in MainArgs
    /\ repo = ParseFlags(args).Repo
    /\ dryRun = ParseFlags(args).DryRun
    /\ walk = NoWalk
    /\ pc = "start"
    /\ outcome = "none"
    /\ writes = 0
    /\ Idle

\* ProcessFile reads a generated file and returns.
SkipGenerated ==
    /\ pc = "start"
    /\ IsGeneratedFile(disk)
    /\ code' = disk
    /\ pc' = "done"
    /\ outcome' = "generated"
    /\ UNCHANGED <<args, walk, disk, repo, dryRun, allImports, groups, lines, scanPos,
                   foundFirstImport, inImportBlock, skipImportLines, buf, writes>>

\* ProcessFile reads a file, CollectImports fails and ProcessFile returns
\* the error.
CollectFails ==
    /\ pc = "start"
    /\ CollectErr(disk)
    /\ ~IsGeneratedFile(disk)
    /\ code' = disk
    /\ pc' = "done"
    /\ outcome' = "error"
    /\ UNCHANGED <<args, walk, disk, repo, dryRun, allImports, groups, lines, scanPos,
                   foundFirstImport, inImportBlock, skipImportLines, buf, writes>>

\* (mutant) With no import collected the file is still rewritten, which
\* deletes its extra import blocks.
NoImports_Rewrites ==
    /\ pc = "start"
    /\ ~IsGeneratedFile(disk)
    /\ ~CollectErr(disk)
    /\ CollectImports(disk) = <<>>
    /\ code' = disk
    /\ disk' = RewriteFile(disk, EmptyGroups)
    /\ pc' = "done"
    /\ outcome' = "no imports"
    /\ UNCHANGED <<args, walk, repo, dryRun, allImports, groups, lines, scanPos,
                   foundFirstImport, inImportBlock, skipImportLines, buf, writes>>

\* ProcessFile reads a file, collects no import and returns.
NoImports ==
    /\ pc = "start"
    /\ CollectImports(disk) = <<>>
    /\ ~CollectErr(disk)
    /\ ~IsGeneratedFile(disk)
    /\ code' = disk
    /\ pc' = "done"
    /\ outcome' = "no imports"
    /\ UNCHANGED <<args, walk, disk, repo, dryRun, allImports, groups, lines, scanPos,
                   foundFirstImport, inImportBlock, skipImportLines, buf, writes>>

\* ProcessFile reads a file and collects its imports.
Collect ==
    /\ pc = "start"
    /\ LET imports == CollectImports(disk)
       IN  imports # <<>> /\ allImports' = imports
    /\ ~CollectErr(disk)
    /\ ~IsGeneratedFile(disk)
    /\ code' = disk
    /\ pc' = "group"
    /\ UNCHANGED <<args, walk, disk, repo, dryRun, groups, lines, scanPos, foundFirstImport,
                   inImportBlock, skipImportLines, buf, outcome, writes>>

\* The prefixes ProcessFile passes to GroupImports: cfg.PkgPrefixes when
\* -pkgs gave any, those of the file's path otherwise.
Prefixes(filename, pkgPrefixes, r) ==
    IF Len(pkgPrefixes) > 0 THEN pkgPrefixes ELSE GetImportPrefixes(filename, r)

\* ProcessFile groups the imports (with the prefixes of the file or of
\* -pkgs, which GroupImports does not read) and RewriteFile starts its scan.
Group ==
    /\ pc = "group"
    /\ \E filename \in FileNames :
          groups' = GroupImports(allImports,
                                 Prefixes(filename, ParseFlags(args).PkgPrefixes, repo), repo)
    /\ lines' = ScanLines(code)
    /\ scanPos' = 1
    /\ pc' = "rewrite"
    /\ UNCHANGED <<args, walk, disk, repo, dryRun, code, allImports, foundFirstImport,
                   inImportBlock, skipImportLines, buf, outcome, writes>>

\* The state of RewriteFile's scan as a record.
ScanState ==
    [foundFirstImport |-> foundFirstImport, inImportBlock |-> inImportBlock,
     skipImportLines |-> skipImportLines, buf |-> buf]

\* One iteration of RewriteFile's loop.
RewriteScan ==
    /\ pc = "rewrite"
    /\ scanPos <= Len(lines)
    /\ LET st == RewriteLine(ScanState, lines[scanPos], groups)
       IN  /\ foundFirstImport' = st.foundFirstImport
           /\ inImportBlock' = st.inImportBlock
           /\ skipImportLines' = st.skipImportLines
           /\ buf' = st.buf
    /\ scanPos' = scanPos + 1
    /\ UNCHANGED <<args, walk, disk, repo, dryRun, pc, code, allImports, groups, lines, outcome, writes>>

\* RewriteFile returned the bytes ProcessFile read: nothing is written.
Unchanged ==
    /\ pc = "rewrite"
    /\ scanPos > Len(lines)
    /\ buf = code
    /\ pc' = "done"
    /\ outcome' = "unchanged"
    /\ UNCHANGED <<args, walk, disk, repo, dryRun, code, allImports, groups, lines, scanPos,
                   foundFirstImport, inImportBlock, skipImportLines, buf, writes>>

\* (mutant) The file is written whether cfg.DryRun is set or not.
WriteFile_IgnoresDryRun ==
    /\ pc = "rewrite"
    /\ scanPos > Len(lines)
    /\ buf # code
    /\ disk' = buf
    /\ writes' = writes + 1
    /\ pc' = "done"
    /\ outcome' = "processed"
    /\ UNCHANGED <<args, walk, repo, dryRun, code, allImports, groups, lines, scanPos,
                   foundFirstImport, inImportBlock, skipImportLines, buf>>

\* The content changed and cfg.DryRun is off: the file is written.
WriteFile ==
    /\ pc = "rewrite"
    /\ scanPos > Len(lines)
    /\ buf # code
    /\ ~dryRun
    /\ disk' = buf
    /\ writes' = writes + 1
    /\ pc' = "done"
    /\ outcome' = "processed"
    /\ UNCHANGED <<args, walk, repo, dryRun, code, allImports, groups, lines, scanPos,
                   foundFirstImport, inImportBlock, skipImportLines, buf>>

\* The content changed and cfg.DryRun is on: the change is only reported.
DryRun ==
    /\ pc = "rewrite"
    /\ scanPos > Len(lines)
    /\ buf # code
    /\ dryRun
    /\ pc' = "done"
    /\ outcome' = "would process"
    /\ UNCHANGED <<args, walk, disk, repo, dryRun, code, allImports, groups, lines, scanPos,
                   foundFirstImport, inImportBlock, skipImportLines, buf, writes>>

\* ProcessFile is called on the file again, with the same configuration.
NextRun ==
    /\ pc = "done"
    /\ writes < MaxWrites
    /\ pc' = "start"
    /\ outcome' = "none"
    /\ code' = ""
    /\ allImports' = <<>>
    /\ groups' = EmptyGroups
    /\ lines' = <<>>
    /\ scanPos' = 1
    /\ foundFirstImport' = FALSE
    /\ inImportBlock' = FALSE
    /\ skipImportLines' = FALSE
    /\ buf' = ""
    /\ UNCHANGED <<args, walk, disk, repo, dryRun, writes>>

Next ==
    \/ SkipGenerated
    \/ CollectFails
    \/ NoImports
    \/ Collect
    \/ Group
    \/ RewriteScan
    \/ Unchanged
    \/ WriteFile
    \/ DryRun
    \/ NextRun

Spec == Init /\ [][Next]_vars

-----------------------------------------------------------------------------
(* RewriteFile called on a text and groups of its caller's choice, as the  *)
(* package's tests call it.                                                *)

\* The imports a group holds when it is not empty, sorted by path.
GroupSample ==
    [Stdlib          |-> <<Import("", "fmt")>>,
     External        |-> <<Import("e", "github.com/x/y")>>,
     OrgCommon       |-> <<Import("", "github.com/myorg/lib"),
                           Import("l", "github.com/myorg/myrepo/pkg/log")>>,
     DomainCommon    |-> <<Import("", "github.com/myorg/myrepo/projects/domain/pkg/u")>>,
     RepoOther       |-> <<Import("", "github.com/myorg/myrepo/projects/domain/b/pkg/y")>>,
     ProjectPkg      |-> <<Import("", "github.com/myorg/myrepo/projects/domain/a/pkg/x")>>,
     ProjectInternal |-> <<Import("", "github.com/myorg/myrepo/projects/domain/a/internal/z")>>]

\* Every combination of empty and non-empty groups.
GroupCombos ==
    {[n \in DOMAIN GroupSample |-> IF n \in S THEN GroupSample[n] ELSE <<>>] :
        S \in SUBSET DOMAIN GroupSample}

\* The opening lines of the first block: not indented, indented with a tab
\* and with blanks, and with white space after the parenthesis.
OpenerLines == {"import (", "\timport (", "  import (", "import ( ", " import (\t"}

\* The texts RewriteFile is called on: an import block between two lines.
RewriteInputs ==
    {"package p\n" \o opener \o "\n\t\"old\"\n)\nvar x\n" : opener \in OpenerLines}

InitRewrite ==
    /\ code \in RewriteInputs
    /\ groups \in GroupCombos
    /\ lines = ScanLines(code)
    /\ scanPos = 1
    /\ foundFirstImport = FALSE
    /\ inImportBlock = FALSE
    /\ skipImportLines = FALSE
    /\ buf = ""
    /\ pc = "rewrite"
    /\ disk = code
    /\ repo = DefaultRepoConfig
    /\ dryRun = FALSE
    /\ args = NoArgs
    /\ walk = NoWalk
    /\ allImports = <<>>
    /\ outcome = "none"
    /\ writes = 0

SpecRewrite == InitRewrite /\ [][RewriteScan]_vars

-----------------------------------------------------------------------------
(* GroupImports called on an import list and a configuration of its        *)
(* caller's choice, as the package's tests call it.                        *)

\* The largest number of imports in the list.
MaxGroupImports == 2

\* Import paths: of the standard library, of another organisation, of the
\* domain's common packages (one of them in a package named like the
\* domain), of two projects, and of a project without /pkg/ or /internal/.
GroupPaths ==
    {"fmt",
     "github.com/x/y",
     "github.com/myorg/myrepo/projects/domain/pkg/u",
     "github.com/myorg/myrepo/projects/domain/pkg/domain/t",
     "github.com/myorg/myrepo/projects/domain/a",
     "github.com/myorg/myrepo/projects/domain/a/pkg/x",
     "github.com/myorg/myrepo/projects/domain/a/internal/z",
     "github.com/myorg/myrepo/projects/domain/b/internal/y",
     "github.com/myorg/fork/projects/domain/a/pkg/x"}

GroupInputs ==
    UNION {[1..k -> {Import("", path) : path \in GroupPaths}] : k \in 0..MaxGroupImports}

\* Repository configurations: those of RepoConfigs, one with an additional
\* common prefix outside the organisation, and one whose template has no
\* "projects" component.
GroupConfigs ==
    RepoConfigs
    \cup {[DefaultRepoConfig EXCEPT !.AdditionalCommonPrefixes = <<"github.com/x">>],
          [DefaultRepoConfig EXCEPT !.ProjectsTemplate = "github.com/myorg/myrepo/services/%s"]}

InitGroup ==
    /\ allImports \in GroupInputs
    /\ repo \in GroupConfigs
    /\ pc = "group"
    /\ groups = EmptyGroups
    /\ code = ""
    /\ disk = ""
    /\ dryRun = FALSE
    /\ args = NoArgs
    /\ walk = NoWalk
    /\ lines = <<>>
    /\ scanPos = 1
    /\ foundFirstImport = FALSE
    /\ inImportBlock = FALSE
    /\ skipImportLines = FALSE
    /\ buf = ""
    /\ outcome = "none"
    /\ writes = 0

SpecGroup == InitGroup /\ [][Group]_vars

-----------------------------------------------------------------------------
(* CollectImports on import blocks of one line, for parseImportLine.       *)

\* The largest length of the line.
MaxLineLen == 5

\* The characters of the line: the double quote, white space, a letter, and
\* the blank identifier and the dot of an import's alias.
ParseChars == {"\"", " ", "a", "_", "."}

\* The strings of n of these characters.
RECURSIVE StringsOf(_)
StringsOf(n) ==
    IF n = 0 THEN {""} ELSE {str \o c : str \in StringsOf(n - 1), c \in ParseChars}

ParseLines == UNION {StringsOf(n) : n \in 0..MaxLineLen}

\* A file whose import block holds the line.
ParseFile(line) == "import (\n" \o line \o "\n)\n"

InitParse ==
    /\ disk \in {ParseFile(line) : line \in ParseLines}
    /\ repo = DefaultRepoConfig
    /\ dryRun = FALSE
    /\ args = NoArgs
    /\ walk = NoWalk
    /\ pc = "start"
    /\ outcome = "none"
    /\ writes = 0
    /\ Idle

SpecParse == InitParse /\ [][Collect \/ NoImports]_vars

-----------------------------------------------------------------------------
(* GroupImports with the ProjectsTemplate of its caller's choice, for      *)
(* extractDomainFromTemplate.                                              *)

\* The largest number of components of the template.
MaxTemplateParts == 3

\* The components of the template.
TemplateParts == {"projects", "d", "x", "%s"}

\* The templates of n components.
RECURSIVE TemplatesOf(_)
TemplatesOf(n) ==
    IF n = 1 THEN TemplateParts
    ELSE {t \o "/" \o part : t \in TemplatesOf(n - 1), part \in TemplateParts}

Templates == UNION {TemplatesOf(n) : n \in 1..MaxTemplateParts}

InitTemplate ==
    /\ repo \in {[DefaultRepoConfig EXCEPT !.ProjectsTemplate = t] : t \in Templates}
    /\ allImports = <<Import("", "github.com/myorg/myrepo/projects/d/a/pkg/q")>>
    /\ pc = "group"
    /\ groups = EmptyGroups
    /\ code = ""
    /\ disk = ""
    /\ dryRun = FALSE
    /\ args = NoArgs
    /\ walk = NoWalk
    /\ lines = <<>>
    /\ scanPos = 1
    /\ foundFirstImport = FALSE
    /\ inImportBlock = FALSE
    /\ skipImportLines = FALSE
    /\ buf = ""
    /\ outcome = "none"
    /\ writes = 0

SpecTemplate == InitTemplate /\ [][Group]_vars

-----------------------------------------------------------------------------
(* ProcessFile on files whose block holds imports of two projects, with    *)
(* and without -pkgs.                                                      *)

\* The largest number of entry lines in the block.
MaxOrderImports == 2

OrderPaths ==
    {"fmt",
     "github.com/myorg/myrepo/projects/domain/a/pkg/x",
     "github.com/myorg/myrepo/projects/domain/a/internal/z",
     "github.com/myorg/myrepo/projects/domain/b/pkg/w",
     "github.com/myorg/myrepo/projects/domain/b/internal/y"}

OrderFiles ==
    {"package p\nimport (\n"
        \o EntryLines("", [i \in 1..Len(body) |-> Import("", body[i])])
        \o ")\n" :
     body \in UNION {[1..k -> OrderPaths] : k \in 0..MaxOrderImports}}

\* The command lines: -d or not, -pkgs with the prefixes of project b or
\* not.
OrderArgs ==
    {[NoArgs EXCEPT !.d = d, !.pkgs = pk] :
        d \in BOOLEAN,
        pk \in {"", "github.com/myorg/myrepo,github.com/myorg/myrepo/pkg,"
                    \o "github.com/myorg/myrepo/projects/domain/pkg,"
                    \o "github.com/myorg/myrepo/projects/domain/b/pkg,"
                    \o "github.com/myorg/myrepo/projects/domain/b/internal"}}

InitOrder ==
    /\ disk \in OrderFiles
    /\ args \in OrderArgs
    /\ repo = ParseFlags(args).Repo
    /\ dryRun = ParseFlags(args).DryRun
    /\ walk = NoWalk
    /\ pc = "start"
    /\ outcome = "none"
    /\ writes = 0
    /\ Idle

SpecOrder ==
    InitOrder /\ [][Collect \/ NoImports \/ Group \/ RewriteScan \/ Unchanged
                      \/ WriteFile \/ DryRun \/ NextRun]_vars

-----------------------------------------------------------------------------
(* ParseFlags on a command line and a config file of its caller's choice.  *)

\* The largest number of repository flags on the command line.
MaxFlags == 1

\* The repository flags, each with a value that is not its default.
RepoFlags ==
    {<<"org", "github.com/other">>,
     <<"repo", "github.com/other/r">>,
     <<"common-prefix", "github.com/other/r/pkg">>,
     <<"domain-prefix", "github.com/other/r/projects/d/pkg">>,
     <<"projects-tpl", "github.com/other/r/projects/d/%s">>}

\* The command lines: up to MaxFlags repository flags, -config with a file
\* that sets every field, one field or cannot be read, -d and -pkgs.
FlagInputs ==
    {[NoArgs EXCEPT !.flags = f, !.config = c, !.d = d, !.pkgs = pk] :
        f \in UNION {[1..k -> RepoFlags] : k \in 0..MaxFlags},
        c \in {"", "repo.json", "org.json", "missing.json"},
        d \in BOOLEAN,
        pk \in {"", "a,b"}}

\* ParseFlags returns: cfg.Repo and cfg.DryRun are those of the Config it
\* built.
ParseArgs ==
    /\ pc = "flags"
    /\ repo' = ParseFlags(args).Repo
    /\ dryRun' = ParseFlags(args).DryRun
    /\ pc' = "start"
    /\ UNCHANGED <<args, walk, disk, code, allImports, groups, lines, scanPos,
                   foundFirstImport, inImportBlock, skipImportLines, buf, outcome, writes>>

InitFlags ==
    /\ args \in FlagInputs
    /\ repo = DefaultRepoConfig
    /\ dryRun = FALSE
    /\ walk = NoWalk
    /\ pc = "flags"
    /\ disk = ""
    /\ outcome = "none"
    /\ writes = 0
    /\ Idle

SpecFlags == InitFlags /\ [][ParseArgs]_vars

-----------------------------------------------------------------------------
(* processor.go: ProcessGoFiles on a directory tree.                       *)

\* filepath.Join of a clean directory path and a relative path.
JoinPath(dir, rel) == IF dir = "." THEN rel ELSE dir \o "/" \o rel

\* ProcessFile as one step: whether it returns an error, and the content of
\* the file when it has returned.
ProcessFileRun(data, cfg) ==
    IF IsGeneratedFile(data) THEN [err |-> FALSE, data |-> data]
    ELSE IF CollectErr(data) THEN [err |-> TRUE, data |-> data]
    ELSE IF CollectImports(data) = <<>> THEN [err |-> FALSE, data |-> data]
    ELSE IF RewriteErr(data) THEN [err |-> TRUE, data |-> data]
    ELSE LET groupsOf   == GroupImports(CollectImports(data), cfg.PkgPrefixes, cfg.Repo)
             newContent == RewriteFile(data, groupsOf)
         IN  [err |-> FALSE,
              data |-> IF newContent = data \/ cfg.DryRun THEN data ELSE newContent]

\* The entries the loop of ProcessGoFiles goes through: the whole tree in
\* WalkDir's order, or the entries os.ReadDir lists for the directory.
TopLevel(e) == ~Contains(e.rel, "/")

Entries(w) == IF w.recursive THEN w.tree ELSE SelectSeq(w.tree, TopLevel)

\* The test of the WalkDir callback, on the path WalkDir passes.
WalkEligible(w, e) ==
    /\ ~e.isDir
    /\ HasSuffix(JoinPath(w.dir, e.rel), ".go")
    /\ ~(w.excludeMock /\ Contains(JoinPath(w.dir, e.rel), "mock"))

\* The test of the os.ReadDir loop, on the entry's name.
ReadDirEligible(w, e) ==
    /\ ~e.isDir
    /\ HasSuffix(e.rel, ".go")
    /\ ~(w.excludeMock /\ Contains(e.rel, "mock"))

\* ProcessFile is called on an entry: the call and its error are recorded
\* and the file holds what ProcessFile left.
Processed(w, e) ==
    LET path == JoinPath(w.dir, e.rel)
        run  == ProcessFileRun(e.data, ParseFlags(args))
    IN  [w EXCEPT !.called = Append(@, path),
                  !.failed = IF run.err THEN Append(@, path) ELSE @,
                  !.tree = [i \in 1..Len(w.tree) |->
                               IF w.tree[i].rel = e.rel
                               THEN [w.tree[i] EXCEPT !.data = run.data]
                               ELSE w.tree[i]],
                  !.pos = @ + 1]

\* (mutant) The callback returns ProcessFile's error and WalkDir stops.
WalkDirFunc_ReturnsError ==
    /\ walk.result = "running"
    /\ walk.recursive
    /\ walk.readable
    /\ walk.pos <= Len(Entries(walk))
    /\ LET e == Entries(walk)[walk.pos]
       IN  walk' = IF WalkEligible(walk, e)
                   THEN IF ProcessFileRun(e.data, ParseFlags(args)).err
                        THEN [Processed(walk, e) EXCEPT !.result = "walking directory"]
                        ELSE Processed(walk, e)
                   ELSE [walk EXCEPT !.pos = @ + 1]
    /\ UNCHANGED <<args, disk, repo, dryRun, pc, code, allImports, groups, lines, scanPos,
                   foundFirstImport, inImportBlock, skipImportLines, buf, outcome, writes>>

\* One call of the WalkDir callback in recursive mode.
WalkDirFunc ==
    /\ walk.result = "running"
    /\ walk.recursive
    /\ walk.readable
    /\ walk.pos <= Len(Entries(walk))
    /\ LET e == Entries(walk)[walk.pos]
       IN  walk' = IF WalkEligible(walk, e) THEN Processed(walk, e)
                   ELSE [walk EXCEPT !.pos = @ + 1]
    /\ UNCHANGED <<args, disk, repo, dryRun, pc, code, allImports, groups, lines, scanPos,
                   foundFirstImport, inImportBlock, skipImportLines, buf, outcome, writes>>

\* WalkDir cannot read the directory: the callback returns the error and
\* ProcessGoFiles wraps it.
WalkDirFails ==
    /\ walk.result = "running"
    /\ walk.recursive
    /\ ~walk.readable
    /\ walk' = [walk EXCEPT !.result = "walking directory"]
    /\ UNCHANGED <<args, disk, repo, dryRun, pc, code, allImports, groups, lines, scanPos,
                   foundFirstImport, inImportBlock, skipImportLines, buf, outcome, writes>>

\* os.ReadDir fails and ProcessGoFiles wraps the error.
ReadDirFails ==
    /\ walk.result = "running"
    /\ ~walk.recursive
    /\ ~walk.readable
    /\ walk' = [walk EXCEPT !.result = "reading directory"]
    /\ UNCHANGED <<args, disk, repo, dryRun, pc, code, allImports, groups, lines, scanPos,
                   foundFirstImport, inImportBlock, skipImportLines, buf, outcome, writes>>

\* One iteration of the loop over os.ReadDir's entries.
ReadDirLoop ==
    /\ walk.result = "running"
    /\ ~walk.recursive
    /\ walk.readable
    /\ walk.pos <= Len(Entries(walk))
    /\ LET e == Entries(walk)[walk.pos]
       IN  walk' = IF ReadDirEligible(walk, e) THEN Processed(walk, e)
                   ELSE [walk EXCEPT !.pos = @ + 1]
    /\ UNCHANGED <<args, disk, repo, dryRun, pc, code, allImports, groups, lines, scanPos,
                   foundFirstImport, inImportBlock, skipImportLines, buf, outcome, writes>>

\* The entries are exhausted: ProcessGoFiles returns nil.
ReturnNil ==
    /\ walk.result = "running"
    /\ walk.readable
    /\ walk.pos > Len(Entries(walk))
    /\ walk' = [walk EXCEPT !.result = "nil"]
    /\ UNCHANGED <<args, disk, repo, dryRun, pc, code, allImports, groups, lines, scanPos,
                   foundFirstImport, inImportBlock, skipImportLines, buf, outcome, writes>>

\* The largest number of entries in the directory tree.
MaxDirEntries == 4

\* A file ProcessFile rewrites, and a file on which it fails (a line longer
\* than the scanner's buffer).
GoodFile == "package p\nimport (\n\t\"os\"\n\t\"fmt\"\n)\n"
BadFile == "package p\nimport (\n\t" \o LongText \o "\n)\n"

\* The entries a tree is made of, in WalkDir's order; a.go is a file on
\* which ProcessFile fails or not.
TreeEntries(aData) ==
    <<[rel |-> "a.go",      isDir |-> FALSE, data |-> aData],
      [rel |-> "b_mock.go", isDir |-> FALSE, data |-> GoodFile],
      [rel |-> "c.go",      isDir |-> FALSE, data |-> GoodFile],
      [rel |-> "notes.txt", isDir |-> FALSE, data |-> ""],
      [rel |-> "sub",       isDir |-> TRUE,  data |-> ""],
      [rel |-> "sub/d.go",  isDir |-> FALSE, data |-> GoodFile]>>

\* The entries of a sequence at the indexes of a set, in order.
RECURSIVE Pick(_, _, _)
Pick(seq, K, i) ==
    IF i > Len(seq) THEN <<>>
    ELSE (IF i \in K THEN <<seq[i]>> ELSE <<>>) \o Pick(seq, K, i + 1)

\* The trees: up to MaxDirEntries of the entries, a file of sub only with
\* sub.
Trees ==
    {Pick(TreeEntries(aData), K, 1) :
        aData \in {GoodFile, BadFile},
        K \in {S \in SUBSET (1..6) :
                  Cardinality(S) <= MaxDirEntries /\ (6 \in S => 5 \in S)}}

\* The command lines: the directory, -r and -exclude-mock.
DirArgs ==
    {[NoArgs EXCEPT !.dir = dir, !.r = r, !.excludeMock = x] :
        dir \in {".", "src", "mocks"}, r \in BOOLEAN, x \in BOOLEAN}

InitDir ==
    /\ args \in DirArgs
    /\ repo = ParseFlags(args).Repo
    /\ dryRun = ParseFlags(args).DryRun
    /\ \E tree \in Trees, readable \in BOOLEAN :
          walk = [dir |-> ParseFlags(args).Dir,
                  recursive |-> ParseFlags(args).Recursive,
                  excludeMock |-> ParseFlags(args).ExcludeMock,
                  readable |-> readable, tree |-> tree, pos |-> 1,
                  called |-> <<>>, failed |-> <<>>, result |-> "running"]
    /\ pc = "start"
    /\ disk = ""
    /\ outcome = "none"
    /\ writes = 0
    /\ Idle

SpecDir ==
    InitDir /\ [][WalkDirFunc \/ WalkDirFails \/ ReadDirFails \/ ReadDirLoop
                    \/ ReturnNil]_vars

-----------------------------------------------------------------------------
(* The transform as a function of the text.                                *)

\* What ProcessFile makes of a text that is not a generated file: the text
\* itself when no import is collected, RewriteFile's result otherwise.
FormatSource(text, r) ==
    IF CollectImports(text) = <<>> THEN text
    ELSE RewriteFile(text, GroupImports(CollectImports(text), <<>>, r))

-----------------------------------------------------------------------------
(* The claims.                                                             *)

\* C1 (idempotence): a ProcessFile run on a file that ProcessFile has
\* rewritten writes nothing: once the file has been written, no step
\* changes it again.
C1_Idempotence == [][writes >= 1 => disk' = disk]_vars

\* RewriteFile has returned in this run: buf is its result for code.
Rewritten == pc = "done" /\ outcome \in {"unchanged", "processed", "would process"}

\* The tokens that trim to the opening line of an import block.
Openers(toks) == {i \in 1..Len(toks) : TrimSpace(toks[i]) = "import ("}

\* The first line after line i that trims to ")"; the line after the last
\* one when there is none.
CloserAfter(toks, i) ==
    LET C == {j \in (i + 1)..Len(toks) : TrimSpace(toks[j]) = ")"}
    IN  IF C = {} THEN Len(toks) + 1 ELSE SetMin(C)

\* Line k lies in an import block: between an "import (" line and the next
\* following ")" line, both included.
InSomeBlock(toks, k) ==
    \E i \in Openers(toks) : i <= k /\ k <= CloserAfter(toks, i)

RECURSIVE SelectOutside(_, _)
SelectOutside(toks, k) ==
    IF k > Len(toks) THEN <<>>
    ELSE (IF InSomeBlock(toks, k) THEN <<>> ELSE <<toks[k]>>) \o SelectOutside(toks, k + 1)

\* The lines outside every import block, in order.
OutsideLines(toks) == SelectOutside(toks, 1)

\* s is t with some elements left out.
RECURSIVE IsSubsequence(_, _)
IsSubsequence(s, t) ==
    IF s = <<>> THEN TRUE
    ELSE IF t = <<>> THEN FALSE
    ELSE IF Head(s) = Head(t) THEN IsSubsequence(Tail(s), Tail(t))
    ELSE IsSubsequence(s, Tail(t))

\* C2 (non-import text is preserved): the lines of the input outside the
\* first import block and outside every extra block appear in RewriteFile's
\* output with the same text and in the same order.
C2_OutsideLinesKept ==
    Rewritten => IsSubsequence(OutsideLines(ScanLines(code)), ScanLines(buf))

\* The terminator of each token of a text, as the scanner consumed it:
\* CRLF, LF, or nothing for a last line without a newline.
RECURSIVE Terminators(_)
Terminators(data) ==
    LET i == Index(data, "\n")
    IN  IF data = "" THEN <<>>
        ELSE IF i = 0 THEN <<"">>
        ELSE <<IF i > 1 /\ Char(data, i - 1) = "\r" THEN "\r\n" ELSE "\n">>
             \o Terminators(SubSeq(data, i + 1, Len(data)))

\* A step of the scan that passes the scanned line through: it writes, and
\* the line is not the opening line of the first block.
PassesThrough ==
    /\ pc = "rewrite"
    /\ scanPos <= Len(lines)
    /\ TrimSpace(lines[scanPos]) # "import ("
    /\ buf' # buf

\* C3 (line terminators are kept): a line that RewriteFile passes through is
\* written with the terminator it had in the input, and so a file whose
\* rewritten lines are its own lines is reported as unchanged.
C3_TerminatorsKept ==
    /\ [][PassesThrough =>
            buf' = buf \o lines[scanPos] \o Terminators(code)[scanPos]]_vars
    /\ [](Rewritten /\ ScanLines(buf) = ScanLines(code) => outcome = "unchanged")

PathSet(imports) == {imports[i].Path : i \in 1..Len(imports)}

\* C4 (content conservation): the paths collected from the rewritten text
\* are the distinct paths collected from the input.
C4_PathsConserved ==
    Rewritten => PathSet(CollectImports(buf)) = PathSet(CollectImports(code))

\* GroupImports has just returned in this run: groups is its result for
\* allImports (neither changes in the rest of the run).
Grouped == pc = "rewrite" /\ scanPos = 1

GroupSet == {GroupNames[i] : i \in 1..Len(GroupNames)}

\* The places (group, index) at which a path occurs in the groups.
PlacesOf(g, path) ==
    UNION {{<<n, i>> : i \in {j \in 1..Len(g[n]) : g[n][j].Path = path}} : n \in GroupSet}

\* C5 (partition): every distinct path of the input list occurs in exactly
\* one group, exactly once, and the groups hold no other path.
C5_Partition ==
    Grouped =>
        /\ \A path \in PathSet(allImports) : Cardinality(PlacesOf(groups, path)) = 1
        /\ \A n \in GroupSet : PathSet(groups[n]) \subseteq PathSet(allImports)

\* Two imports with different paths were grouped into different groups.
C5_Witness ==
    /\ Grouped
    /\ Cardinality(PathSet(allImports)) = 2
    /\ Cardinality({n \in GroupSet : groups[n] # <<>>}) = 2

\* The first import of the list with the given path.
FirstWithPath(imports, path) ==
    imports[SetMin({i \in 1..Len(imports) : imports[i].Path = path})]

\* C6 (duplicates collapse): for a path that occurs several times in the
\* input list the groups hold one entry, with the alias of the first
\* occurrence.
C6_FirstAliasKept ==
    Grouped =>
        \A path \in PathSet(allImports) :
            /\ Cardinality(PlacesOf(groups, path)) = 1
            /\ \A pl \in PlacesOf(groups, path) :
                  groups[pl[1]][pl[2]] = FirstWithPath(allImports, path)

\* Two imports with the same path and different aliases were grouped.
C6_Witness ==
    /\ Grouped
    /\ Len(allImports) = 2
    /\ allImports[1].Path = allImports[2].Path
    /\ allImports[1].Alias # allImports[2].Alias

\* The text of an entry line of the rewritten block, without its indentation.
EntryText(imp) ==
    IF imp.Alias # "" THEN imp.Alias \o " " \o Quote(imp.Path) ELSE Quote(imp.Path)

\* The line of the first import block of a text that holds the entry of an
\* import: the first such line after the opening line, 0 when there is none.
LineOf(toks, imp) ==
    LET o == SetMin(Openers(toks))
        L == {k \in (o + 1)..(CloserAfter(toks, o) - 1) :
                 TrimSpace(toks[k]) = EntryText(imp)}
    IN  IF Openers(toks) = {} \/ L = {} THEN 0 ELSE SetMin(L)

\* The entries of the groups as (rank of the group, import) pairs.
RankedEntries(g) ==
    UNION {{<<n, g[GroupNames[n]][i]>> : i \in 1..Len(g[GroupNames[n]])} :
              n \in 1..Len(GroupNames)}

\* C7 (group ordering): the rewritten first block holds every entry; the
\* entries of an earlier group stand before those of a later group, and
\* within a group an entry with a smaller path stands before one with a
\* larger path.
C7_GroupOrder ==
    Rewritten =>
        LET out == ScanLines(buf)
        IN  /\ \A e \in RankedEntries(groups) : LineOf(out, e[2]) # 0
            /\ \A e1, e2 \in RankedEntries(groups) :
                  (e1[1] < e2[1] \/ (e1[1] = e2[1] /\ StrLess(e1[2].Path, e2[2].Path)))
                      => LineOf(out, e1[2]) < LineOf(out, e2[2])

\* A file was rewritten whose two imports stood in the other order: the
\* second one has the smaller path and belongs to the same or an earlier group.
C7_Witness ==
    /\ Rewritten
    /\ Len(allImports) = 2
    /\ StrLess(allImports[2].Path, allImports[1].Path)
    /\ \E e1, e2 \in RankedEntries(groups) :
          e1[2] = allImports[2] /\ e2[2] = allImports[1] /\ e1[1] <= e2[1]

\* The group the claimed precedence gives a path, for a repository
\* configuration and the detected project prefix (empty: none detected).
C8_Rule(path, r, projectPrefix) ==
    CASE ~Contains(path, ".") -> "Stdlib"
      [] Contains(path, ".") /\ ~HasPrefix(path, r.OrgPrefix) -> "External"
      [] OTHER ->
           IF \/ HasPrefix(path, r.CommonPrefix)
              \/ \E i \in 1..Len(r.AdditionalCommonPrefixes) :
                    HasPrefix(path, r.AdditionalCommonPrefixes[i])
              \/ (HasPrefix(path, r.OrgPrefix) /\ ~HasPrefix(path, r.RepoPrefix))
           THEN "OrgCommon"
           ELSE IF HasPrefix(path, r.DomainPrefix) THEN "DomainCommon"
           ELSE IF projectPrefix # "" /\ HasPrefix(path, projectPrefix)
                   /\ Contains(path, "/pkg/") THEN "ProjectPkg"
           ELSE IF projectPrefix # "" /\ HasPrefix(path, projectPrefix)
                   /\ Contains(path, "/internal/") THEN "ProjectInternal"
           ELSE "RepoOther"

\* The project prefix GroupImports detected for the import list of this run.
DetectedPrefix ==
    DetectProjectPrefix(allImports, extractDomainFromTemplate(repo.ProjectsTemplate))

\* C8 (classification precedence): every import is in the group of the
\* first rule that matches its path.
C8_Precedence ==
    Grouped =>
        \A path \in PathSet(allImports) :
            path \in PathSet(groups[C8_Rule(path, repo, DetectedPrefix)])

\* A path that matches the rule of ProjectPkg and the rule of
\* ProjectInternal was classified.
C8_Witness ==
    /\ Grouped
    /\ \E path \in PathSet(allImports) :
          /\ DetectedPrefix # ""
          /\ HasPrefix(path, DetectedPrefix)
          /\ Contains(path, "/pkg/")
          /\ Contains(path, "/internal/")
          /\ ~HasPrefix(path, repo.DomainPrefix)
          /\ ~stringHasPrefixAny(path, repo.AdditionalCommonPrefixes)

\* The lines of the entries of a group in a text.
LinesOfGroup(toks, imports) == {LineOf(toks, imports[i]) : i \in 1..Len(imports)}

\* C9 (pkg before internal): when ProjectPkg and ProjectInternal both hold
\* imports, every ProjectPkg entry stands before every ProjectInternal entry
\* in the rewritten block and exactly one blank line lies between the last
\* ProjectPkg entry and the first ProjectInternal entry.
C9_PkgBeforeInternal ==
    (Rewritten /\ groups.ProjectPkg # <<>> /\ groups.ProjectInternal # <<>>) =>
        LET out      == ScanLines(buf)
            pkgLines == LinesOfGroup(out, groups.ProjectPkg)
            intLines == LinesOfGroup(out, groups.ProjectInternal)
        IN  /\ 0 \notin pkgLines \cup intLines
            /\ \A k \in pkgLines : \A l \in intLines : k < l
            /\ SetMin(intLines) = SetMax(pkgLines) + 2
            /\ out[SetMax(pkgLines) + 1] = ""

\* A file with a ProjectPkg import and a ProjectInternal import was rewritten.
C9_Witness ==
    Rewritten /\ groups.ProjectPkg # <<>> /\ groups.ProjectInternal # <<>>

\* The entries the claim describes: the parsed lines strictly between the
\* first "import (" line and the first following ")" line that are not blank,
\* do not start with "//" and hold a quoted path.
RECURSIVE ParsedBetween(_, _, _)
ParsedBetween(toks, k, last) ==
    IF k > last THEN <<>>
    ELSE LET t == TrimSpace(toks[k])
         IN  (IF t # "" /\ ~HasPrefix(t, "//") /\ parseImportLine(t).Path # ""
              THEN <<parseImportLine(t)>> ELSE <<>>)
             \o ParsedBetween(toks, k + 1, last)

FirstBlockEntries(data) ==
    LET toks == ScanLines(data)
    IN  IF Openers(toks) = {} THEN <<>>
        ELSE ParsedBetween(toks, SetMin(Openers(toks)) + 1,
                           CloserAfter(toks, SetMin(Openers(toks))) - 1)

\* C10 (extraction): CollectImports returns, in source order, the parseable
\* entries of the first import block and nothing else.
C10_FirstBlockOnly ==
    /\ pc = "group" => allImports = FirstBlockEntries(code)
    /\ (pc = "done" /\ outcome = "no imports") => FirstBlockEntries(code) = <<>>

\* Imports were collected from a file whose second import block holds an
\* entry that is not among them.
C10_Witness ==
    /\ pc = "group"
    /\ LET toks == ScanLines(code)
       IN  /\ Cardinality(Openers(toks)) = 2
           /\ \E k \in (SetMax(Openers(toks)) + 1)..Len(toks) :
                 /\ parseImportLine(TrimSpace(toks[k])).Path # ""
                 /\ parseImportLine(TrimSpace(toks[k])).Path \notin PathSet(allImports)

\* The opening lines of the extra import blocks: every "import (" line but
\* the first.
ExtraOpeners(toks) ==
    IF Openers(toks) = {} THEN {} ELSE Openers(toks) \ {SetMin(Openers(toks))}

\* Line k belongs to an extra import block: it is a second or later
\* "import (" line, the next following ")" line, or a line between the two.
InExtraBlock(toks, k) ==
    \E i \in ExtraOpeners(toks) : i <= k /\ k <= CloserAfter(toks, i)

\* C11 (multiple import blocks): RewriteFile writes nothing for a second or
\* later "import (" line, for the lines after it up to the next ")" line and
\* for that closing line, and its output holds one "import (" line at most.
C11_ExtraBlocksDeleted ==
    /\ [][(pc = "rewrite" /\ scanPos <= Len(lines) /\ InExtraBlock(lines, scanPos))
             => buf' = buf]_vars
    /\ [](Rewritten => Cardinality(Openers(ScanLines(buf))) <= 1)

\* C16 (write discipline): when a ProcessFile run has ended, the file holds
\* what the run read unless cfg.DryRun is off and RewriteFile returned other
\* bytes, and then it holds those bytes; no step of a run with cfg.DryRun
\* set, and no step of a run whose rewritten content equals what was read,
\* changes the file.
C16_WriteDiscipline ==
    /\ [][disk' # disk => (~dryRun /\ pc = "rewrite" /\ buf # code /\ disk' = buf)]_vars
    /\ []((pc = "done" /\ (dryRun \/ outcome = "unchanged")) => disk = code)
    /\ []((pc = "done" /\ disk # code) => (~dryRun /\ Rewritten /\ buf # code /\ disk = buf))

\* A run with cfg.DryRun set has ended with a rewritten content that differs
\* from the file.
C16_Witness ==
    pc = "done" /\ dryRun /\ outcome = "would process" /\ buf # code /\ disk = code

\* C19 (no fatal conditions in the core): for the bytes ProcessFile has read,
\* CollectImports returns no error and RewriteFile returns no error.
C19_NoError ==
    pc # "start" => (~CollectErr(code) /\ ~RewriteErr(code))

\* C14 (empty-import short-circuit): when ProcessFile has run on a file whose
\* first import block holds no parseable entry, or which has no import
\* block, nothing was classified, nothing was rewritten and the file is as
\* it was read, later import blocks or not.
C14_EmptyShortCircuit ==
    (pc = "done" /\ ~CollectErr(code) /\ FirstBlockEntries(code) = <<>>) =>
        /\ outcome \in {"no imports", "generated"}
        /\ disk = code
        /\ groups = EmptyGroups
        /\ scanPos = 1 /\ buf = ""

\* ProcessFile has returned on a file whose first block holds no entry and
\* whose second block holds one.
C14_Witness ==
    /\ pc = "done" /\ outcome = "no imports"
    /\ LET toks == ScanLines(code)
       IN  /\ Cardinality(Openers(toks)) = 2
           /\ \E k \in (SetMax(Openers(toks)) + 1)..Len(toks) :
                 parseImportLine(TrimSpace(toks[k])).Path # ""

\* A generated marker in a line, letter case aside: "generated" together
\* with "//" or "/*", or one of the explicit markers.
C17_Marker(line) ==
    \/ /\ Contains(ToLower(line), "generated")
       /\ (Contains(line, "//") \/ Contains(line, "/*"))
    \/ \E m \in {"do not edit", "auto-generated", "autogenerated", "code generated",
                 "by mockgen", "by protoc", "automatically generated"} :
          Contains(ToLower(line), m)

\* Among the first 10 lines of a text and before the first line that starts
\* (leading white space aside) with "package ", a non-blank line holds a
\* generated marker.
C17_MarkedAsGenerated(data) ==
    LET toks == ScanLines(data)
        n    == IF Len(toks) < 10 THEN Len(toks) ELSE 10
        pkgs == {k \in 1..n : HasPrefix(TrimSpace(toks[k]), "package ")}
        last == IF pkgs = {} THEN n ELSE SetMin(pkgs) - 1
    IN  \E k \in 1..last : TrimSpace(toks[k]) # "" /\ C17_Marker(toks[k])

\* C17 (generated-file detection): ProcessFile takes a file as generated
\* exactly when a non-blank line among its first 10 lines and before its
\* package clause holds a generated marker, and no step changes a file that
\* is generated in this sense.
C17_GeneratedDetection ==
    /\ [](pc = "done" => ((outcome = "generated") <=> C17_MarkedAsGenerated(code)))
    /\ [][disk' # disk => ~C17_MarkedAsGenerated(disk)]_vars

\* ProcessFile did not take as generated a file whose only marker stands
\* after the package clause.
C17_Witness ==
    /\ pc = "done" /\ outcome # "generated"
    /\ LET toks == ScanLines(code)
       IN  \E j, k \in 1..Len(toks) :
              j < k /\ HasPrefix(TrimSpace(toks[j]), "package ") /\ C17_Marker(toks[k])

\* RewriteFile's loop has ended: buf holds its result.
ScanDone == pc = "rewrite" /\ scanPos > Len(lines)

\* The lines of a text strictly between its first "import (" line and the
\* first following ")" line.
BlockBody(toks) ==
    IF Openers(toks) = {} THEN <<>>
    ELSE SubSeq(toks, SetMin(Openers(toks)) + 1, CloserAfter(toks, SetMin(Openers(toks))) - 1)

\* For each line of a body, whether it is blank.
BlankPattern(body) == [k \in 1..Len(body) |-> body[k] = ""]

\* The body the claim describes, as a pattern of blank lines: for each
\* non-empty group from the i-th on, a blank line when a non-empty group
\* precedes it, then one line for each of its entries.
RECURSIVE C12_Pattern(_, _, _)
C12_Pattern(g, i, preceded) ==
    IF i > Len(GroupNames) THEN <<>>
    ELSE IF g[GroupNames[i]] = <<>> THEN C12_Pattern(g, i + 1, preceded)
    ELSE (IF preceded THEN <<TRUE>> ELSE <<>>)
         \o [k \in 1..Len(g[GroupNames[i]]) |-> FALSE]
         \o C12_Pattern(g, i + 1, TRUE)

\* C12 (blank-line separation): in the body RewriteFile writes into the
\* first block, the entries of two consecutive non-empty groups are separated
\* by exactly one blank line and there is no other blank line: none before
\* the first entry, none after the last, none for an empty group.
C12_BlankLines ==
    ScanDone => BlankPattern(BlockBody(ScanLines(buf))) = C12_Pattern(groups, 1, FALSE)

\* RewriteFile has written a block for groups of which an empty one lies
\* between non-empty ones, one holds two entries and the last one is empty.
C12_Witness ==
    /\ ScanDone
    /\ groups.Stdlib # <<>> /\ groups.External = <<>> /\ groups.OrgCommon # <<>>
    /\ groups.RepoOther # <<>> /\ groups.ProjectInternal = <<>>
    /\ Len(BlockBody(ScanLines(buf))) = 6

\* The white space at the head of a line.
LeadingSpace(line) ==
    LET rest == {i \in 1..Len(line) : ~IsSpace(Char(line, i))}
    IN  IF rest = {} THEN line ELSE SubSeq(line, 1, SetMin(rest) - 1)

\* The entries of the groups in the order of the groups.
RECURSIVE AllEntries(_, _)
AllEntries(g, i) ==
    IF i > Len(GroupNames) THEN <<>> ELSE g[GroupNames[i]] \o AllEntries(g, i + 1)

\* The entry line the claim describes.
C13_EntryLine(lead, imp) ==
    IF imp.Alias # "" THEN lead \o "\t" \o imp.Alias \o " \"" \o imp.Path \o "\""
    ELSE lead \o "\t" \o "\"" \o imp.Path \o "\""

NonBlank(line) == line # ""

\* C13 (entry indentation): the entry lines RewriteFile writes into the
\* first block are, in the order of the groups, the leading white space of
\* the block's "import (" line, a tab, and the alias and the quoted path or
\* the quoted path alone.
C13_EntryIndent ==
    ScanDone =>
        LET lead    == LeadingSpace(lines[SetMin(Openers(lines))])
            entries == AllEntries(groups, 1)
        IN  SelectSeq(BlockBody(ScanLines(buf)), NonBlank)
                = [k \in 1..Len(entries) |-> C13_EntryLine(lead, entries[k])]

\* The position of the domain segment in the segments of a path: the first
\* segment equal to it (0: none).
C15_DomainAt(parts, dom) ==
    IF \E k \in 1..Len(parts) : parts[k] = dom
    THEN SetMin({k \in 1..Len(parts) : parts[k] = dom}) ELSE 0

\* An import path gives a project: it contains /projects/<domain>/ and
\* /internal/ or /pkg/, and the segment right after the domain segment is
\* not "pkg".
C15_Qualifies(path, dom) ==
    LET parts == Split(path, "/")
        d     == C15_DomainAt(parts, dom)
    IN  /\ dom # ""
        /\ Contains(path, "/projects/" \o dom \o "/")
        /\ (Contains(path, "/internal/") \/ Contains(path, "/pkg/"))
        /\ d # 0 /\ d < Len(parts) /\ parts[d + 1] # "pkg"

\* The path truncated through the project-name segment.
C15_Truncated(path, dom) ==
    LET parts == Split(path, "/")
    IN  Join(SubSeq(parts, 1, C15_DomainAt(parts, dom) + 1), "/")

\* The project prefix the claim describes: that of the first import, in
\* input order, that gives a project; empty when none does.
C15_Project(imports, dom) ==
    LET Q == {i \in 1..Len(imports) : C15_Qualifies(imports[i].Path, dom)}
    IN  IF Q = {} THEN "" ELSE C15_Truncated(imports[SetMin(Q)].Path, dom)

\* C15 (project-name inference): the project prefix GroupImports works with
\* is the one of the first import that contains /projects/<domain>/ and
\* /internal/ or /pkg/ and whose segment after the domain segment is not
\* "pkg"; an import whose candidate segment is "pkg" gives no project; with
\* no project, ProjectPkg and ProjectInternal are empty.
C15_ProjectInference ==
    Grouped =>
        LET project == C15_Project(allImports, extractDomainFromTemplate(repo.ProjectsTemplate))
        IN  /\ DetectedPrefix = project
            /\ project = "" => (groups.ProjectPkg = <<>> /\ groups.ProjectInternal = <<>>)
            /\ \A path \in PathSet(groups.ProjectPkg) \cup PathSet(groups.ProjectInternal) :
                  HasPrefix(path, project)

\* C18 (additional common prefixes): every import whose path starts with one
\* of the configuration's AdditionalCommonPrefixes is in the OrgCommon group.
C18_AdditionalPrefixes ==
    Grouped =>
        \A path \in PathSet(allImports) :
            (\E i \in 1..Len(repo.AdditionalCommonPrefixes) :
                HasPrefix(path, repo.AdditionalCommonPrefixes[i]))
                => path \in PathSet(groups.OrgCommon)

\* What the claim says of a line: with two double quotes or more, the text
\* between the first and the last one as path and the trimmed text before
\* the first one as alias; otherwise an empty path and an empty alias.
C20_Parsed(line) ==
    LET Q == {i \in 1..Len(line) : Char(line, i) = "\""}
    IN  IF Cardinality(Q) >= 2
        THEN [Alias |-> TrimSpace(SubSeq(line, 1, SetMin(Q) - 1)),
              Path  |-> SubSeq(line, SetMin(Q) + 1, SetMax(Q) - 1)]
        ELSE [Alias |-> "", Path |-> ""]

\* The line of the one-line import block ProcessFile has read.
BlockLine == ScanLines(code)[2]

\* C20 (import-line parsing): parseImportLine returns, for the line as it
\* stands and for the trimmed line, what the claim says, and a line with
\* fewer than two double quotes contributes no import to CollectImports'
\* result, while a line with a path contributes the import the claim says.
C20_ParseImportLine ==
    pc # "start" =>
        /\ parseImportLine(BlockLine) = C20_Parsed(BlockLine)
        /\ parseImportLine(TrimSpace(BlockLine)) = C20_Parsed(TrimSpace(BlockLine))
        /\ allImports = IF C20_Parsed(TrimSpace(BlockLine)).Path = "" THEN <<>>
                        ELSE <<C20_Parsed(TrimSpace(BlockLine))>>

\* CollectImports has returned an import with the alias "." whose path
\* holds a double quote: a line with three double quotes.
C20_Witness ==
    /\ pc = "group"
    /\ Len(allImports) = 1
    /\ allImports[1].Alias = "."
    /\ Contains(allImports[1].Path, "\"")

\* The component right after the first "projects" component of a template
\* that is followed by a component, wherever it stands; empty when there is
\* none.
C21_Domain(template) ==
    LET parts == Split(template, "/")
        K     == {k \in 1..(Len(parts) - 1) : parts[k] = "projects"}
    IN  IF K = {} THEN "" ELSE parts[SetMin(K) + 1]

\* C21 (domain-segment derivation): the domain part GroupImports derives from
\* the template is the component right after a "projects" component,
\* wherever that component stands, and it is empty only when no "projects"
\* component is followed by a component.
C21_DomainSegment ==
    Grouped =>
        extractDomainFromTemplate(repo.ProjectsTemplate) = C21_Domain(repo.ProjectsTemplate)

\* The scanner state of RewriteFile the flags stand for, "none" when they
\* stand for no state of the three.
C23_ScannerState ==
    IF ~inImportBlock /\ ~skipImportLines THEN "Outside"
    ELSE IF foundFirstImport /\ inImportBlock /\ ~skipImportLines THEN "InFirstBlock"
    ELSE IF foundFirstImport /\ ~inImportBlock /\ skipImportLines THEN "InExtraBlockToSkip"
    ELSE "none"

\* C23 (rewriter state machine): at every point of RewriteFile's scan the
\* flags stand for exactly one of Outside, InFirstBlock and
\* InExtraBlockToSkip, inImportBlock and skipImportLines are never both set,
\* and the ")" line read inside the first block leaves the scanner Outside.
C23_ScannerStates ==
    /\ [](pc = "rewrite" => C23_ScannerState # "none")
    /\ [][(pc = "rewrite" /\ inImportBlock /\ scanPos' = scanPos + 1
             /\ TrimSpace(lines[scanPos]) = ")")
          => (~inImportBlock' /\ ~skipImportLines')]_vars

\* C28 (single opener): what RewriteFile returns holds exactly one
\* "import (" line when its input holds one or more and none when its input
\* holds none, in every run over the file.
C28_SingleOpener ==
    Rewritten =>
        Cardinality(Openers(ScanLines(buf))) = (IF Openers(lines) = {} THEN 0 ELSE 1)

\* RewriteFile has returned for an input with two "import (" lines.
C28_Witness ==
    Rewritten /\ Cardinality(Openers(lines)) >= 2

\* The lines with the lines at i and j exchanged.
C25_Swap(toks, i, j) ==
    [k \in 1..Len(toks) |-> IF k = i THEN toks[j] ELSE IF k = j THEN toks[i] ELSE toks[k]]

\* The pairs of lines of the first import block.
C25_BlockPairs(toks) ==
    LET o == SetMin(Openers(toks))
        c == CloserAfter(toks, o)
    IN  {p \in ((o + 1)..(c - 1)) \X ((o + 1)..(c - 1)) : p[1] < p[2]}

\* C25 (order independence): when the first block holds no path twice, the
\* file with two lines of its first block exchanged is rewritten to the same
\* bytes; every reordering of the block is a sequence of such exchanges.
C25_OrderIndependence ==
    (Rewritten /\ Cardinality(PathSet(allImports)) = Len(allImports)) =>
        \A p \in C25_BlockPairs(lines) :
            FormatSource(Join(C25_Swap(lines, p[1], p[2]), "\n"), repo) = buf

\* The field of RepoConfig a repository flag is bound to.
C24_Field(name) ==
    CASE name = "org"           -> "OrgPrefix"
      [] name = "repo"          -> "RepoPrefix"
      [] name = "common-prefix" -> "CommonPrefix"
      [] name = "domain-prefix" -> "DomainPrefix"
      [] name = "projects-tpl"  -> "ProjectsTemplate"

\* C24 (flags override the config file): when the command line holds
\* -config and a repository flag, the field of Config.Repo the flag is bound
\* to holds the flag's value when ParseFlags has returned.
C24_FlagsOverride ==
    (pc = "start" /\ args.config # "") =>
        \A i \in 1..Len(args.flags) :
            repo[C24_Field(args.flags[i][1])]
                = FlagValue(args.flags, args.flags[i][1], "")

\* The path is in the /pkg/ tree of the project.
C22_PkgOf(path, project, r) ==
    HasPrefix(path, ReplaceFirst(r.ProjectsTemplate, "%s", project) \o "/pkg/")

\* The path is in the /internal/ tree of the project.
C22_InternalOf(path, project, r) ==
    HasPrefix(path, ReplaceFirst(r.ProjectsTemplate, "%s", project) \o "/internal/")

C22_Projects == {"a", "b"}

\* C22 (pkg before internal across projects): when the block imports a
\* /pkg/ package of one project and an /internal/ package of another project
\* of the domain, the rewritten block holds the line of the first before the
\* line of the second, in whatever order the input held them.
C22_PkgBeforeInternal ==
    Rewritten =>
        \A i, j \in 1..Len(allImports) :
            (\E A, B \in C22_Projects :
                /\ A # B
                /\ C22_PkgOf(allImports[i].Path, A, repo)
                /\ C22_InternalOf(allImports[j].Path, B, repo))
            => /\ LineOf(ScanLines(buf), allImports[i]) > 0
               /\ LineOf(ScanLines(buf), allImports[i])
                    < LineOf(ScanLines(buf), allImports[j])

\* The prefix lists ProcessFile can pass to GroupImports: none, those of a
\* file's path, those of -pkgs.
C27_PrefixLists ==
    {<<>>, ParseFlags(args).PkgPrefixes}
    \cup {GetImportPrefixes(filename, repo) : filename \in FileNames}

C26_LastPart(path) == Split(path, "/")[Len(Split(path, "/"))]

\* C26 (detected project prefix is the template instance): when GroupImports
\* detects a project, its project prefix is ProjectsTemplate with the
\* placeholder replaced by the project's name, the prefix GetImportPrefixes
\* builds on for a file of that project.
C26_PrefixIsTemplateInstance ==
    (Grouped /\ DetectedPrefix # "") =>
        DetectedPrefix
            = ReplaceFirst(repo.ProjectsTemplate, "%s", C26_LastPart(DetectedPrefix))

\* ProcessGoFiles has returned.
WalkDone == walk.result \in {"nil", "walking directory", "reading directory"}

\* The paths of the files that pass the test of the mode, in the order of
\* the mode's loop.
RECURSIVE C30_Eligible(_, _)
C30_Eligible(w, entries) ==
    IF entries = <<>> THEN <<>>
    ELSE (IF (w.recursive /\ WalkEligible(w, Head(entries)))
             \/ (~w.recursive /\ ReadDirEligible(w, Head(entries)))
          THEN <<JoinPath(w.dir, Head(entries).rel)>> ELSE <<>>)
         \o C30_Eligible(w, Tail(entries))

\* C30 (per-file failures do not stop the run): when the directory can be
\* read, ProcessGoFiles calls ProcessFile on every file that passes the
\* mode's test, whether ProcessFile failed on an earlier one or not, and
\* returns nil; it returns an error only when the directory cannot be read
\* or walked.
C30_FailuresDoNotStop ==
    /\ (WalkDone /\ walk.readable) =>
          (walk.result = "nil" /\ walk.called = C30_Eligible(walk, Entries(walk)))
    /\ (WalkDone /\ ~walk.readable) =>
          (walk.result = (IF walk.recursive THEN "walking directory" ELSE "reading directory")
           /\ walk.called = <<>>)

\* ProcessGoFiles has returned nil after ProcessFile failed on a file and
\* was called on a later one.
C30_Witness ==
    /\ walk.result = "nil"
    /\ Len(walk.failed) = 1
    /\ Len(walk.called) >= 2
    /\ walk.called[1] = walk.failed[1]

\* The paths of the files the other mode calls ProcessFile on.
C29_OtherMode(w) ==
    {JoinPath(w.dir, w.tree[i].rel) :
        i \in {k \in 1..Len(w.tree) :
                  IF w.recursive THEN ReadDirEligible(w, w.tree[k])
                  ELSE WalkEligible(w, w.tree[k])}}

\* C29 (mock exclusion is mode-independent): with ExcludeMock set and a
\* directory without subdirectories, ProcessGoFiles has called ProcessFile
\* on the files the other mode calls it on, whatever cfg.Dir is.
C29_ModeIndependent ==
    (/\ walk.result = "nil"
     /\ walk.excludeMock
     /\ \A i \in 1..Len(walk.tree) : ~walk.tree[i].isDir)
    => {walk.called[i] : i \in 1..Len(walk.called)} = C29_OtherMode(walk)

====
